---- MODULE Spec2Model ----
(***************************************************************************)
(* A model of pdf_splitter.py: the TOC extractor, the range mapper, the    *)
(* title-anchored offset scanner, the manual offset fallback and the       *)
(* per-chapter splitter, together with the module-level pipeline that      *)
(* chains them.                                                            *)
(*                                                                         *)
(* Text is a sequence of one-character strings.  A font size is an integer *)
(* number of tenths of a point, i.e. the value round(size, 1) produces.    *)
(***************************************************************************)
EXTENDS Integers, Sequences, FiniteSets, TLC

VARIABLES
    pc,                  \* position of the running program
    doc,                 \* the PDF: a sequence of pages [words, text]
    temp_reader,         \* the PdfReader of the main program, or None
    chapter_title,       \* find_offset_by_title_scan: parameter
    printed_start_page,  \* find_offset_by_title_scan: parameter
    toc_end_file_page,   \* find_offset_by_title_scan: parameter
    scan_i,              \* find_offset_by_title_scan: loop index i (0-indexed)
    scan_result,         \* find_offset_by_title_scan: return value
    scan_raised,         \* find_offset_by_title_scan: an exception reached its handlers
    examined,            \* the 1-indexed file pages the scan loop has examined, in order
    PRINTED_CHAPTER_STARTS,     \* ordered mapping label -> printed start page
    last_printed_page,          \* argument of map_starts_to_ranges
    PRINTED_CHAPTER_MAP_RANGES, \* ordered mapping label -> (start, end)
    FILE_CHAPTER_MAP,           \* ordered mapping label -> (file_start, file_end)
    PAGE_OFFSET,
    FALLBACK_TO_MANUAL,
    first_chapter_title,
    first_chapter_printed_page,
    MANUAL_FALLBACK_FILE_PAGE,  \* None, or the accepted file page as a one-element tuple
    supplied,            \* what the user typed at the prompt, in order
    resolutions,         \* the assignments made to PAGE_OFFSET after its initialisation: <<resolver, value>>
    chapter_pages,       \* split_pdf_by_chapters: ordered mapping label -> (file_start, file_end)
    total_pages,         \* split_pdf_by_chapters: len(reader.pages)
    split_i,             \* split_pdf_by_chapters: number of map items already taken by the loop
    files,               \* chapters_output: file name -> the physical pages written to it
    written,             \* the labels whose output file has been written, in order
    skipped,             \* the labels skipped by the range validation, in order
    write_failed         \* the label whose write raised, as a one-element sequence, or << >>

vars == <<pc, doc, temp_reader, chapter_title, printed_start_page, toc_end_file_page,
          scan_i, scan_result, scan_raised, examined, PRINTED_CHAPTER_STARTS, last_printed_page,
          PRINTED_CHAPTER_MAP_RANGES, FILE_CHAPTER_MAP, PAGE_OFFSET, FALLBACK_TO_MANUAL,
          first_chapter_title, first_chapter_printed_page, MANUAL_FALLBACK_FILE_PAGE,
          supplied, resolutions, chapter_pages, total_pages, split_i, files, written,
          skipped, write_failed>>

\* Python's None where a tuple, a string or a mapping is expected
None == << >>

\* temp_reader before a reader exists
NoReader == "None"

(***************************************************************************)
(* Characters and the str / re primitives the program uses.                *)
(***************************************************************************)
Digits == <<"0", "1", "2", "3", "4", "5", "6", "7", "8", "9">>

DigitChars == {Digits[i] : i \in 1..10}

LowerChars == {"a","b","c","d","e","f","g","h","i","j","k","l","m",
               "n","o","p","q","r","s","t","u","v","w","x","y","z"}

UpperToLower == [A |-> "a", B |-> "b", C |-> "c", D |-> "d", E |-> "e", F |-> "f",
                 G |-> "g", H |-> "h", I |-> "i", J |-> "j", K |-> "k", L |-> "l",
                 M |-> "m", N |-> "n", O |-> "o", P |-> "p", Q |-> "q", R |-> "r",
                 S |-> "s", T |-> "t", U |-> "u", V |-> "v", W |-> "w", X |-> "x",
                 Y |-> "y", Z |-> "z"]

UpperChars == DOMAIN UpperToLower

SpaceChars == {" ", "\n", "\t"}

\* str.isalnum() of one character
IsAlnum(c) == c \in DigitChars \cup LowerChars \cup UpperChars

\* the regex class \w
IsWordChar(c) == IsAlnum(c) \/ c = "_"

\* str.lower() of one character
LowerChar(c) == IF c \in UpperChars THEN UpperToLower[c] ELSE c

\* str.lower()
Lower(s) == [i \in 1..Len(s) |-> LowerChar(s[i])]

\* s[a-1:b] in Python terms: the characters a..b (1-indexed, inclusive)
Slice(s, a, b) == [i \in 1..(IF b >= a THEN b - a + 1 ELSE 0) |-> s[a + i - 1]]

\* `needle in hay` for strings
Contains(hay, needle) ==
    \E k \in 0..(Len(hay) - Len(needle)) :
        \A j \in 1..Len(needle) : hay[k + j] = needle[j]

\* str.strip(): leading and trailing whitespace removed
Strip(s) ==
    LET keep == {i \in 1..Len(s) : s[i] \notin SpaceChars}
    IN  IF keep = {} THEN << >>
        ELSE LET a == CHOOSE i \in keep : \A j \in keep : i <= j
                 b == CHOOSE i \in keep : \A j \in keep : i >= j
             IN  Slice(s, a, b)

\* the length of the longest run of characters of class cls starting at position p
RECURSIVE RunLen(_, _, _)
RunLen(s, p, cls) ==
    IF p > Len(s) \/ s[p] \notin cls THEN 0 ELSE 1 + RunLen(s, p + 1, cls)

\* the decimal digits of a natural number
RECURSIVE NatStr(_)
NatStr(n) == IF n < 10 THEN <<Digits[n + 1]>> ELSE NatStr(n \div 10) \o <<Digits[(n % 10) + 1]>>

\* str(n) of an integer
Str(n) == IF n < 0 THEN <<"-">> \o NatStr(0 - n) ELSE NatStr(n)

DigitValue(c) == CHOOSE d \in 0..9 : Digits[d + 1] = c

\* the value of a non-empty string of decimal digits
RECURSIVE DigitsValue(_)
DigitsValue(s) ==
    IF Len(s) = 0 THEN 0
    ELSE 10 * DigitsValue(SubSeq(s, 1, Len(s) - 1)) + DigitValue(s[Len(s)])

\* the digits of int(s)'s argument: surrounding whitespace and one leading
\* sign are accepted, as int() accepts them
IntBody(s) ==
    LET t == Strip(s)
    IN  IF Len(t) > 0 /\ t[1] \in {"-", "+"} THEN Slice(t, 2, Len(t)) ELSE t

\* int(s) raises ValueError
IntRaises(s) ==
    Len(IntBody(s)) = 0 \/ \E i \in 1..Len(IntBody(s)) : IntBody(s)[i] \notin DigitChars

\* int(s), where it does not raise
ParseInt(s) ==
    IF Strip(s)[1] = "-" THEN 0 - DigitsValue(IntBody(s)) ELSE DigitsValue(IntBody(s))

\* str.split(): the maximal runs of non-whitespace characters
RECURSIVE SplitFrom(_, _)
SplitFrom(s, p) ==
    IF p > Len(s) THEN << >>
    ELSE IF s[p] \in SpaceChars THEN SplitFrom(s, p + 1)
    ELSE LET n == RunLen(s, p, {s[i] : i \in 1..Len(s)} \ SpaceChars)
         IN  <<Slice(s, p, p + n - 1)>> \o SplitFrom(s, p + n)

Split(s) == SplitFrom(s, 1)

\* " ".join(ws)
RECURSIVE JoinSpace(_)
JoinSpace(ws) ==
    IF Len(ws) = 0 THEN << >>
    ELSE IF Len(ws) = 1 THEN ws[1]
    ELSE ws[1] \o <<" ">> \o JoinSpace(Tail(ws))

\* re.sub(r'[^\w\s]', '', s)
RECURSIVE StripPunct(_)
StripPunct(s) ==
    IF Len(s) = 0 THEN << >>
    ELSE (IF IsWordChar(s[1]) \/ s[1] \in SpaceChars THEN <<s[1]>> ELSE << >>)
         \o StripPunct(Tail(s))

(***************************************************************************)
(* find_offset_by_title_scan                                               *)
(***************************************************************************)
ScanWindow == 50

\* the text the regex ^\d+\.?\d*\s*(.*)$ captures in group 1, for a title that
\* starts with a digit (the regex matches exactly those titles)
TitleGroup1(t) ==
    LET a == 1 + RunLen(t, 1, DigitChars)
        b == IF a <= Len(t) /\ t[a] = "." THEN a + 1 ELSE a
        c == b + RunLen(t, b, DigitChars)
        d == c + RunLen(t, c, SpaceChars)
    IN  Slice(t, d, Len(t))

CleanTitle(t) ==
    Lower(Strip(IF Len(t) > 0 /\ t[1] \in DigitChars THEN TitleGroup1(t) ELSE t))

\* " ".join(clean_title.split()[:min(5, len(clean_title.split()))])
SearchKey(t) ==
    LET ws == Split(CleanTitle(t))
    IN  JoinSpace(SubSeq(ws, 1, IF Len(ws) < 5 THEN Len(ws) ELSE 5))

\* [word for word in words if 'size' in word]
SizedWords(words) == SelectSeq(words, LAMBDA w : "size" \in DOMAIN w)

\* Counter(sizes).most_common(1)[0][0]: the most frequent size, the one met
\* first among equally frequent ones
Baseline(sized) ==
    LET n        == Len(sized)
        Count(s) == Cardinality({i \in 1..n : sized[i].size = s})
        First(s) == CHOOSE i \in 1..n : sized[i].size = s /\ \A j \in 1..(i - 1) : sized[j].size # s
        best     == CHOOSE i \in 1..n :
                       /\ First(sized[i].size) = i
                       /\ \A j \in 1..n :
                            \/ Count(sized[j].size) < Count(sized[i].size)
                            \/ Count(sized[j].size) = Count(sized[i].size) /\ First(sized[j].size) >= i
    IN  sized[best].size

\* The baselines (in tenths of a point, up to 40.0) for which the double
\* product baseline_size * 1.5 is greater than the exact product.
RoundedUpBaselines ==
    {2, 4, 8, 16, 22, 26, 32, 42, 44, 52, 54, 64, 74, 84, 88, 94, 98, 104, 108, 118, 128,
     138, 148, 158, 166, 168, 176, 178, 186, 188, 196, 198, 206, 208, 216, 226, 236, 246,
     256, 266, 276, 286, 296, 306, 316, 322, 326, 332, 336, 342, 346, 352, 356, 362, 366,
     372, 376, 382, 386, 392, 396}

\* word_size >= baseline_size * 1.5, in double arithmetic
IsLarge(word_size, baseline_size) ==
    IF 2 * word_size = 3 * baseline_size
    THEN baseline_size \notin RoundedUpBaselines
    ELSE 2 * word_size > 3 * baseline_size

\* the loop that aggregates large words into large_text_blocks, from word k on,
\* with current_block = cur and large_text_blocks = acc
RECURSIVE BlocksFrom(_, _, _, _, _)
BlocksFrom(sized, base, k, cur, acc) ==
    IF k > Len(sized)
    THEN IF Len(cur) > 0 THEN Append(acc, Strip(cur)) ELSE acc
    ELSE IF IsLarge(sized[k].size, base)
         THEN BlocksFrom(sized, base, k + 1, cur \o sized[k].text \o <<" ">>, acc)
         ELSE IF Len(cur) > 0
              THEN BlocksFrom(sized, base, k + 1, << >>, Append(acc, Strip(cur)))
              ELSE BlocksFrom(sized, base, k + 1, cur, acc)

LargeTextBlocks(page) ==
    LET sized == SizedWords(page.words)
    IN  IF Len(sized) = 0 THEN << >>
        ELSE BlocksFrom(sized, Baseline(sized), 1, << >>, << >>)

\* title_found, for a page that has words with size metadata
TitleFound(page, search_key) ==
    \E b \in 1..Len(LargeTextBlocks(page)) :
        Contains(Lower(StripPunct(LargeTextBlocks(page)[b])), search_key)

\* page_number_found
PageNumberFound(page, printed) == Contains(page.text, Str(printed))

\* the pages the loop skips with `continue` before any analysis
PageSkipped(page) == Len(page.words) = 0 \/ Len(SizedWords(page.words)) = 0

\* PageMatches without the page-number test of step 5
PageMatchesTitleOnly(page, search_key, printed) ==
    /\ ~PageSkipped(page)
    /\ TitleFound(page, search_key)

\* the test of step 6 on one page
PageMatches(page, search_key, printed) ==
    /\ ~PageSkipped(page)
    /\ TitleFound(page, search_key)
    /\ PageNumberFound(page, printed)

StartIndex == IF toc_end_file_page > 0 THEN toc_end_file_page ELSE 0

\* ScanLimit without the bound of 50 pages
ScanLimitWholeDocument == Len(doc)

ScanLimit == IF StartIndex + ScanWindow < Len(doc) THEN StartIndex + ScanWindow ELSE Len(doc)

(***************************************************************************)
(* The documents the model reads.  A page is what pdfplumber returns for   *)
(* it: extract_words() as a sequence of [text, size] (size = None for a    *)
(* word without the 'size' key) and extract_text() as a string.            *)
(***************************************************************************)
Word(t, s) == [text |-> t, size |-> s]

\* a word without the 'size' key
UnsizedWord(t) == [text |-> t]

Page(ws, t) == [words |-> ws, text |-> t]

BlankPage == Page(<< >>, << >>)

\* body text only, all of one size, with the printed page number n
BodyPage(n) ==
    Page(<<Word(<<"b", "o", "d", "y">>, 100), Word(<<"t", "e", "x", "t">>, 100), Word(Str(n), 100)>>,
         <<"b", "o", "d", "y", " ", "t", "e", "x", "t", "\n">> \o Str(n))

\* the chapter heading at 18pt over 10pt body text, printed page number n
TitlePage(n) ==
    Page(<<Word(<<"E", "r", "r", "o", "r">>, 180), Word(<<"H", "a", "n", "d", "l", "i", "n", "g">>, 180), Word(<<"b", "o", "d", "y">>, 100),
           Word(<<"t", "e", "x", "t">>, 100), Word(Str(n), 100)>>,
         <<"E", "r", "r", "o", "r", " ", "H", "a", "n", "d", "l", "i", "n", "g", "\n", "b", "o", "d", "y", " ", "t", "e", "x", "t", "\n">> \o Str(n))

\* the heading as a running header in body size
HeaderPage(n) ==
    Page(<<Word(<<"E", "r", "r", "o", "r">>, 100), Word(<<"H", "a", "n", "d", "l", "i", "n", "g">>, 100), Word(<<"b", "o", "d", "y">>, 100),
           Word(Str(n), 100)>>,
         <<"E", "r", "r", "o", "r", " ", "H", "a", "n", "d", "l", "i", "n", "g", "\n", "b", "o", "d", "y", "\n">> \o Str(n))

\* the two heading words separated by a body-size word
SplitTitlePage(n) ==
    Page(<<Word(<<"E", "r", "r", "o", "r">>, 180), Word(<<"i", "n">>, 100), Word(<<"H", "a", "n", "d", "l", "i", "n", "g">>, 180),
           Word(<<"b", "o", "d", "y">>, 100), Word(Str(n), 100)>>,
         <<"E", "r", "r", "o", "r", " ", "i", "n", " ", "H", "a", "n", "d", "l", "i", "n", "g", "\n", "b", "o", "d", "y", "\n">> \o Str(n))

\* the heading with punctuation and capitals, in a longer large block
PunctTitlePage(n) ==
    Page(<<Word(<<"1", ".">>, 150), Word(<<"E", "R", "R", "O", "R">>, 150), Word(<<"H", "a", "n", "d", "l", "i", "n", "g", ":">>, 150),
           Word(<<"m", "o", "r", "e">>, 100), Word(<<"b", "o", "d", "y">>, 100), Word(<<"t", "e", "x", "t">>, 100), Word(Str(n), 100)>>,
         <<"1", ".", " ", "E", "R", "R", "O", "R", " ", "H", "a", "n", "d", "l", "i", "n", "g", ":", "\n", "m", "o", "r", "e", " ", "b", "o", "d", "y", " ", "t", "e", "x", "t", "\n">> \o Str(n))

\* words without size metadata only
NoSizePage(n) ==
    Page(<<UnsizedWord(<<"E", "r", "r", "o", "r">>), UnsizedWord(<<"H", "a", "n", "d", "l", "i", "n", "g">>), UnsizedWord(Str(n))>>,
         <<"E", "r", "r", "o", "r", " ", "H", "a", "n", "d", "l", "i", "n", "g", "\n">> \o Str(n))

\* as many heading words as body words, the heading first: the heading size
\* is the baseline
TiePage(n) ==
    Page(<<Word(<<"E", "r", "r", "o", "r">>, 180), Word(<<"H", "a", "n", "d", "l", "i", "n", "g">>, 180), Word(<<"b", "o", "d", "y">>, 100),
           Word(Str(n), 100)>>,
         <<"E", "r", "r", "o", "r", " ", "H", "a", "n", "d", "l", "i", "n", "g", "\n", "b", "o", "d", "y", "\n">> \o Str(n))

\* a 15.6pt heading over 10.4pt body text: exactly 1.5 times the baseline
RatioPage(n) ==
    Page(<<Word(<<"E", "r", "r", "o", "r">>, 156), Word(<<"H", "a", "n", "d", "l", "i", "n", "g">>, 156), Word(<<"b", "o", "d", "y">>, 104),
           Word(<<"t", "e", "x", "t">>, 104), Word(Str(n), 104)>>,
         <<"E", "r", "r", "o", "r", " ", "H", "a", "n", "d", "l", "i", "n", "g", "\n", "b", "o", "d", "y", " ", "t", "e", "x", "t", "\n">> \o Str(n))

(***************************************************************************)
(* extract_chapters_from_toc                                               *)
(***************************************************************************)
PagesToScan == 15

\* the result of an attempt that does not match: a match ends after its start
NoMatch == [end |-> 0]

\* One attempt of toc_pattern_numbered at position p of text:
\*   ^([\d\.]+)\s*(.+?)[\s\.]+(\d+)$   with re.MULTILINE.
\* n1 characters go to group 1, w to \s*, t to group 2; the separator and the
\* digits that follow are then the longest runs of their classes, and $ needs
\* the end of the text or a newline after the digits.
TocSplitOk(text, p, n1, w, t) ==
    LET r  == p + n1 + w
        s  == r + t
        u  == s + RunLen(text, s, SpaceChars \cup {"."})
        e  == u + RunLen(text, u, DigitChars)
    IN  /\ w <= RunLen(text, p + n1, SpaceChars)
        /\ s - 1 <= Len(text)
        /\ \A i \in r..(s - 1) : text[i] # "\n"
        /\ u > s
        /\ e > u
        /\ (e > Len(text) \/ text[e] = "\n")

\* the split the backtracking engine finds first: group 1 and \s* greedy,
\* group 2 lazy
TocMatchAt(text, p) ==
    LET n1max == RunLen(text, p, DigitChars \cup {"."})
        cands == UNION {{c \in {n1} \X (0..RunLen(text, p + n1, SpaceChars)) \X (1..Len(text)) :
                            TocSplitOk(text, p, c[1], c[2], c[3])} : n1 \in 1..n1max}
        Before(c, d) == \/ c[1] > d[1]
                        \/ c[1] = d[1] /\ c[2] > d[2]
                        \/ c[1] = d[1] /\ c[2] = d[2] /\ c[3] <= d[3]
    IN  IF cands = {} THEN NoMatch
        ELSE LET c == CHOOSE c \in cands : \A d \in cands : Before(c, d)
                 r == p + c[1] + c[2]
                 s == r + c[3]
                 u == s + RunLen(text, s, SpaceChars \cup {"."})
                 e == u + RunLen(text, u, DigitChars)
             IN  [chapter_number |-> Strip(Slice(text, p, p + c[1] - 1)),
                  title          |-> Strip(Slice(text, r, s - 1)),
                  printed_page   |-> DigitsValue(Slice(text, u, e - 1)),
                  end            |-> e]

\* toc_pattern_numbered.finditer(text), from position p on
RECURSIVE FindIter(_, _)
FindIter(text, p) ==
    IF p > Len(text) THEN << >>
    ELSE IF (p = 1 \/ text[p - 1] = "\n") /\ TocMatchAt(text, p).end > 0
         THEN <<TocMatchAt(text, p)>> \o FindIter(text, TocMatchAt(text, p).end)
         ELSE FindIter(text, p + 1)

\* the keys of an ordered mapping (a sequence of <<key, value>>)
Keys(m) == {m[i][1] : i \in 1..Len(m)}

\* the body of `for match in ...finditer(text)`, from match k on
RECURSIVE AddMatches(_, _, _)
AddMatches(extracted, ms, k) ==
    IF k > Len(ms) THEN extracted
    ELSE LET full_title_key == ms[k].chapter_number \o <<" ">> \o ms[k].title
         IN  IF /\ Len(ms[k].title) > 5
                /\ ms[k].printed_page > 1
                /\ full_title_key \notin Keys(extracted)
             THEN AddMatches(Append(extracted, <<full_title_key, ms[k].printed_page>>), ms, k + 1)
             ELSE AddMatches(extracted, ms, k + 1)

\* the loop over the first scan_limit pages, from page i (1-indexed) on
RECURSIVE ExtractFrom(_, _, _)
ExtractFrom(d, i, extracted) ==
    IF i > Len(d) \/ i > PagesToScan THEN extracted
    ELSE IF Len(d[i].text) = 0 THEN ExtractFrom(d, i + 1, extracted)
    ELSE ExtractFrom(d, i + 1, AddMatches(extracted, FindIter(d[i].text, 1), 1))

\* sorted(items, key=lambda item: item[1]): a stable sort by value.
\* InsertByValue puts x after the items that are not greater.
RECURSIVE InsertByValue(_, _)
InsertByValue(sorted, x) ==
    IF Len(sorted) = 0 THEN <<x>>
    ELSE IF sorted[Len(sorted)][2] <= x[2] THEN Append(sorted, x)
    ELSE Append(InsertByValue(SubSeq(sorted, 1, Len(sorted) - 1), x), sorted[Len(sorted)])

\* SortedByValue without the sort: the items in their order of insertion
InsertionOrder(items) == items

RECURSIVE SortedByValue(_)
SortedByValue(items) ==
    IF Len(items) = 0 THEN << >>
    ELSE InsertByValue(SortedByValue(SubSeq(items, 1, Len(items) - 1)), items[Len(items)])

\* extract_chapters_from_toc(pdf_path): the sorted mapping, or None
ExtractChaptersFromToc(d) ==
    LET extracted == ExtractFrom(d, 1, << >>)
    IN  IF Len(extracted) > 0 THEN SortedByValue(extracted) ELSE None

(***************************************************************************)
(* map_starts_to_ranges                                                    *)
(***************************************************************************)
\* RangesFrom with start_page < end_page as the test of line 294
RECURSIVE RangesFromStrict(_, _, _, _)
RangesFromStrict(sorted_items, last, i, final_map) ==
    IF i > Len(sorted_items) THEN final_map
    ELSE LET start_page == sorted_items[i][2]
             end_page   == IF i < Len(sorted_items) THEN sorted_items[i + 1][2] - 1 ELSE last
         IN  IF start_page < end_page
             THEN RangesFromStrict(sorted_items, last, i + 1,
                                   Append(final_map, <<sorted_items[i][1], <<start_page, end_page>>>>))
             ELSE RangesFromStrict(sorted_items, last, i + 1, final_map)

\* the loop over sorted_items, from item i (1-indexed) on
RECURSIVE RangesFrom(_, _, _, _)
RangesFrom(sorted_items, last, i, final_map) ==
    IF i > Len(sorted_items) THEN final_map
    ELSE LET start_page == sorted_items[i][2]
             end_page   == IF i < Len(sorted_items) THEN sorted_items[i + 1][2] - 1 ELSE last
         IN  IF start_page <= end_page
             THEN RangesFrom(sorted_items, last, i + 1,
                             Append(final_map, <<sorted_items[i][1], <<start_page, end_page>>>>))
             ELSE RangesFrom(sorted_items, last, i + 1, final_map)

\* MapStartsToRanges without the sort of line 282
MapStartsUnsorted(chapter_starts, last) ==
    RangesFrom(chapter_starts, last, 1, << >>)

MapStartsToRanges(chapter_starts, last) ==
    RangesFrom(SortedByValue(chapter_starts), last, 1, << >>)

(***************************************************************************)
(* split_pdf_by_chapters: the file name and the range validation           *)
(***************************************************************************)
\* Sanitize with the space left out of the characters that are kept
SanitizeSpacesReplaced(s) ==
    [i \in 1..Len(s) |-> IF IsAlnum(s[i]) \/ s[i] \in {"_", "-"} THEN s[i] ELSE "_"]

\* "".join(c if c.isalnum() or c in (' ', '_', '-') else '_' for c in clean_title)
Sanitize(s) ==
    [i \in 1..Len(s) |-> IF IsAlnum(s[i]) \/ s[i] \in {" ", "_", "-"} THEN s[i] ELSE "_"]

\* output_filename for the key title_with_num; re.match(r"^([\d\.]+)\s*(.*)$")
\* matches exactly the keys that start with a digit or a dot
OutputFilename(title_with_num) ==
    LET n1         == RunLen(title_with_num, 1, DigitChars \cup {"."})
        w          == RunLen(title_with_num, 1 + n1, SpaceChars)
        num_prefix == IF n1 > 0 THEN Strip(Slice(title_with_num, 1, n1)) ELSE << >>
        clean      == IF n1 > 0
                      THEN Strip(Slice(title_with_num, 1 + n1 + w, Len(title_with_num)))
                      ELSE title_with_num
        safe       == Strip(Sanitize(clean))
    IN  IF Len(num_prefix) > 0 THEN num_prefix \o <<"_">> \o safe \o <<".", "p", "d", "f">>
        ELSE safe \o <<".", "p", "d", "f">>

\* InvalidRange without the test file_end > total_pages
InvalidRangeNoUpperBound(file_start, file_end, total) ==
    file_start < 1 \/ file_start > file_end

\* the condition of step 2 under which a chapter is skipped
InvalidRange(file_start, file_end, total) ==
    file_start < 1 \/ file_end > total \/ file_start > file_end

\* the pages writer.add_page() receives: range(file_start - 1, file_end), 1-indexed
PagesAdded(file_start, file_end) == [k \in 1..(file_end - file_start + 1) |-> file_start + k - 1]

(***************************************************************************)
(* Bounds and the inputs the specifications draw from                      *)
(***************************************************************************)
MaxScanPages == 2

MaxTocPages == 2

MaxChapters == 3

MaxStart == 5

MaxSplitChapters == 2

MaxSplitPages == 3

MaxPrompts == 2

\* the sequences over S of length lo..hi
SeqsOf(S, lo, hi) == UNION {[1..n -> S] : n \in lo..hi}

\* the heading "Introduction" at 18pt over 10pt body text
IntroPage(n) ==
    Page(<<Word(<<"I", "n", "t", "r", "o", "d", "u", "c", "t", "i", "o", "n">>, 180), Word(<<"b", "o", "d", "y">>, 100), Word(<<"t", "e", "x", "t">>, 100),
           Word(Str(n), 100)>>,
         <<"I", "n", "t", "r", "o", "d", "u", "c", "t", "i", "o", "n", "\n", "b", "o", "d", "y", " ", "t", "e", "x", "t", "\n">> \o Str(n))

ScanPageKinds ==
    {BlankPage, BodyPage(3), TitlePage(3), TitlePage(13), TitlePage(7), HeaderPage(3),
     SplitTitlePage(3), PunctTitlePage(3), NoSizePage(3), TiePage(3), RatioPage(3)}

ScanDocs == SeqsOf(ScanPageKinds, 1, MaxScanPages)

\* documents longer than the scan window, blank but for a title page at k
LongDoc(k) == [i \in 1..(ScanWindow + 2) |-> IF i = k THEN TitlePage(3) ELSE BlankPage]

LongDocs == {LongDoc(k) : k \in {0, ScanWindow + 1, ScanWindow + 2}}

ScanTitles == {<<"1", " ", "E", "r", "r", "o", "r", " ", "H", "a", "n", "d", "l", "i", "n", "g">>, <<"1", "2">>}

TocIntro == <<"1", " ", "I", "n", "t", "r", "o", "d", "u", "c", "t", "i", "o", "n", " ", ".", " ", "3", "\n", "2", " ", "B", "a", "s", "i", "c", "s", " ", ".", ".", ".", " ", "2", "0">>

TocError == <<"C", "o", "n", "t", "e", "n", "t", "s", "\n", "1", " ", "E", "r", "r", "o", "r", " ", "H", "a", "n", "d", "l", "i", "n", "g", " ", ".", ".", " ", "3", "\n", "2", " ", "B", "a", "s", "i", "c", "s", " ", ".", ".", ".", " ", "2", "0">>

TocTexts ==
    {TocIntro, TocError,
     <<"1", " ", "I", "n", "t", "r", "o", "d", "u", "c", "t", "i", "o", "n", " ", ".", " ", "3", "\n", "1", ".", "1", " ", "O", "v", "e", "r", "v", "i", "e", "w", " ", ".", " ", "3">>,
     <<"2", " ", "B", "a", "s", "i", "c", "s", " ", ".", ".", ".", " ", "2", "0", "\n", "1", " ", "I", "n", "t", "r", "o", "d", "u", "c", "t", "i", "o", "n", " ", ".", " ", "7">>,
     <<"1", " ", "I", "n", "t", "r", "o", " ", ".", " ", "3", "\n", "3", " ", "P", "r", "e", "f", "a", "c", "e", " ", ".", " ", "1">>,
     <<"4", " ", "A", "p", "p", "e", "n", "d", "i", "x", "\n", "3", "0">>,
     <<"I", "n", "d", "e", "x", " ", "4">>,
     << >>}

TocDocs == {[i \in 1..Len(ts) |-> Page(<< >>, ts[i])] : ts \in SeqsOf(TocTexts, 1, MaxTocPages)}

\* the label of the i-th chapter of a drawn mapping
Label(i) == Str(i) \o <<" ", "C", "h", "a", "p", "t", "e", "r">>

StartMaps ==
    {[i \in 1..Len(ps) |-> <<Label(i), ps[i]>>] : ps \in SeqsOf(1..MaxStart, 0, MaxChapters)}

FileRanges == (0..2) \X (1..(MaxSplitPages + 1))

ChapterMaps ==
    {[i \in 1..Len(rs) |-> <<Label(i), rs[i]>>] : rs \in SeqsOf(FileRanges, 0, MaxSplitChapters)}

\* chapter keys whose titles carry punctuation, spaces, underscores, hyphens
SplitTitles ==
    { <<"E", "r", "r", "o", "r", " ", "H", "a", "n", "d", "l", "i", "n", "g", ":", " ", "P", "a", "r", "t", " ", "1">>, <<"1", " ", "E", "r", "r", "o", "r", " ", "H", "a", "n", "d", "l", "i", "n", "g", ":", " ", "P", "a", "r", "t", " ", "1">>, <<"1", " ", "A", ":", "B">>, <<"1", " ", "A", ";", "B">>,
      <<"2", ".", "1", " ", "a", "_", "b", "-", "C">>, <<" ", "x", "/", "y", " ">> }

TitledRanges == {<<1, 1>>, <<2, 3>>, <<3, 2>>}

\* mappings (dictionaries: the keys are pairwise distinct) of these keys to ranges
TitledMaps ==
    {m \in SeqsOf(SplitTitles \X TitledRanges, 0, MaxSplitChapters) :
        \A i, j \in 1..Len(m) : i # j => m[i][1] # m[j][1]}

TOC_START_FILE_PAGE == 5

\* a document of `total` pages with the TOC text on the first TOC page and the
\* pages of `extras` (a set of <<file page, page>>) where they say
MainDoc(total, toc, extras) ==
    [i \in 1..total |->
        IF i = TOC_START_FILE_PAGE THEN Page(<< >>, toc)
        ELSE IF \E x \in extras : x[1] = i THEN (CHOOSE x \in extras : x[1] = i)[2]
        ELSE BlankPage]

MainDocs ==
    {MainDoc(t, toc, ex) :
        t \in {6, 12, 45},
        toc \in {TocIntro, TocError, <<"I", "n", "d", "e", "x", " ", "4">>, <<"1", " ", "I", "n", "t", "r", "o", "d", "u", "c", "t", "i", "o", "n", " ", ".", " ", "3", "\n", "1", ".", "1", " ", "O", "v", "e", "r", "v", "i", "e", "w", " ", ".", " ", "3">>},
        ex \in {{}, {<<27, IntroPage(3)>>}, {<<27, TitlePage(3)>>}, {<<10, IntroPage(3)>>},
                 {<<12, TitlePage(13)>>, <<27, TitlePage(3)>>}}}

UserInputs == {<<"2", "7">>, <<"0">>, <<"-", "3">>, <<"a", "b", "c">>, <<" ", "5", " ">>, << >>}

(***************************************************************************)
(* Actions of find_offset_by_title_scan                                    *)
(***************************************************************************)
ScanVars == <<chapter_title, printed_start_page, toc_end_file_page>>

MainVars == <<PRINTED_CHAPTER_STARTS, last_printed_page, PRINTED_CHAPTER_MAP_RANGES,
              FILE_CHAPTER_MAP, PAGE_OFFSET, FALLBACK_TO_MANUAL, first_chapter_title,
              first_chapter_printed_page, MANUAL_FALLBACK_FILE_PAGE, supplied,
              resolutions, temp_reader>>

SplitVars == <<chapter_pages, total_pages, split_i, files, written, skipped, write_failed>>

\* lines 57-63 and 72-84: the search key is built; an empty key returns None,
\* otherwise the document is opened and the loop starts at start_index
ScanEnter ==
    /\ pc = "scan_enter"
    /\ IF Len(CleanTitle(chapter_title)) = 0
       THEN /\ scan_result' = None
            /\ pc' = "scan_done"
            /\ scan_i' = scan_i
       ELSE /\ scan_i' = StartIndex
            /\ pc' = "scan_loop"
            /\ scan_result' = scan_result
    /\ UNCHANGED <<doc, examined, scan_raised, ScanVars, MainVars, SplitVars>>

\* lines 156-162: pdfplumber.open or a page extraction raises; the handler
\* returns None
ScanRaises ==
    /\ pc \in {"scan_enter", "scan_loop"}
    /\ pc = "scan_enter" => Len(CleanTitle(chapter_title)) > 0
    /\ pc = "scan_loop" => scan_i < ScanLimit
    /\ scan_result' = None
    /\ scan_raised' = TRUE
    /\ pc' = "scan_done"
    /\ UNCHANGED <<doc, examined, scan_i, ScanVars, MainVars, SplitVars>>

\* lines 86-148: one iteration of the loop, on page i + 1
ScanPage ==
    /\ pc = "scan_loop"
    /\ scan_i < ScanLimit
    /\ examined' = Append(examined, scan_i + 1)
    /\ IF PageMatches(doc[scan_i + 1], SearchKey(chapter_title), printed_start_page)
       THEN /\ scan_result' = <<(scan_i + 1) - printed_start_page, scan_i + 1>>
            /\ pc' = "scan_done"
            /\ scan_i' = scan_i
       ELSE /\ scan_i' = scan_i + 1
            /\ UNCHANGED <<scan_result, pc>>
    /\ UNCHANGED <<doc, scan_raised, ScanVars, MainVars, SplitVars>>

\* lines 153-154: the window is exhausted
ScanExhausted ==
    /\ pc = "scan_loop"
    /\ scan_i >= ScanLimit
    /\ scan_result' = None
    /\ pc' = "scan_done"
    /\ UNCHANGED <<doc, examined, scan_i, scan_raised, ScanVars, MainVars, SplitVars>>

(***************************************************************************)
(* Actions of split_pdf_by_chapters                                        *)
(***************************************************************************)
\* lines 308-320: the reader is opened and the pages are counted
SplitEnter ==
    /\ pc = "split_enter"
    /\ total_pages' = Len(doc)
    /\ split_i' = 0
    /\ pc' = "split_loop"
    /\ UNCHANGED <<doc, examined, scan_i, scan_result, scan_raised, ScanVars, MainVars,
                   chapter_pages, files, written, skipped, write_failed>>

\* lines 308-310 and 380-382: the input file is missing, or PdfReader raises
SplitCannotOpen ==
    /\ pc = "split_enter"
    /\ pc' = "split_aborted"
    /\ UNCHANGED <<doc, examined, scan_i, scan_result, scan_raised, ScanVars, MainVars, SplitVars>>

\* lines 322-350: the next chapter has an invalid range and is skipped
SplitSkip ==
    /\ pc = "split_loop"
    /\ split_i < Len(chapter_pages)
    /\ LET item == chapter_pages[split_i + 1]
       IN  /\ InvalidRange(item[2][1], item[2][2], total_pages)
           /\ skipped' = Append(skipped, item[1])
    /\ split_i' = split_i + 1
    /\ UNCHANGED <<pc, doc, examined, scan_i, scan_result, scan_raised, ScanVars, MainVars,
                   chapter_pages, total_pages, files, written, write_failed>>

\* lines 322-376: the next chapter has a valid range and its file is written
SplitWrite ==
    /\ pc = "split_loop"
    /\ split_i < Len(chapter_pages)
    /\ LET item == chapter_pages[split_i + 1]
           name == OutputFilename(item[1])
       IN  /\ ~InvalidRange(item[2][1], item[2][2], total_pages)
           /\ files' = [f \in DOMAIN files \cup {name} |->
                           IF f = name THEN PagesAdded(item[2][1], item[2][2]) ELSE files[f]]
           /\ written' = Append(written, item[1])
    /\ split_i' = split_i + 1
    /\ UNCHANGED <<pc, doc, examined, scan_i, scan_result, scan_raised, ScanVars, MainVars,
                   chapter_pages, total_pages, skipped, write_failed>>

\* lines 352-366 and 380-382: adding the pages or writing the file raises (the
\* output cannot be created, the disk is full); the handler around the whole
\* loop prints the error and the function returns.  The file is either not
\* created or left truncated.
SplitWriteRaises ==
    /\ pc = "split_loop"
    /\ split_i < Len(chapter_pages)
    /\ LET item == chapter_pages[split_i + 1]
           name == OutputFilename(item[1])
       IN  /\ ~InvalidRange(item[2][1], item[2][2], total_pages)
           /\ \/ files' = files
              \/ files' = [f \in DOMAIN files \cup {name} |-> IF f = name THEN << >> ELSE files[f]]
           /\ write_failed' = <<item[1]>>
    /\ pc' = "split_aborted"
    /\ UNCHANGED <<doc, examined, scan_i, scan_result, scan_raised, ScanVars, MainVars,
                   chapter_pages, total_pages, split_i, written, skipped>>

\* line 378: the loop is over
SplitComplete ==
    /\ pc = "split_loop"
    /\ split_i = Len(chapter_pages)
    /\ pc' = "split_complete"
    /\ UNCHANGED <<doc, examined, scan_i, scan_result, scan_raised, ScanVars, MainVars, SplitVars>>

(***************************************************************************)
(* The main program                                                        *)
(***************************************************************************)
TOC_END_FILE_PAGE == 8

FIRST_PRINTED_PAGE_NUMBER == 1

HardcodedFilePage == 27

HardcodedAnchorPage == 3

HardcodedTitle == <<"1", " ", "E", "r", "r", "o", "r", " ", "H", "a", "n", "d", "l", "i", "n", "g">>

ScanState == <<scan_i, scan_result, scan_raised, examined>>

\* lines 405-409: the TOC is extracted; without entries the program exits
MainExtract ==
    /\ pc = "main_start"
    /\ PRINTED_CHAPTER_STARTS' = ExtractChaptersFromToc(doc)
    /\ pc' = IF PRINTED_CHAPTER_STARTS' = None THEN "exit" ELSE "open_reader"
    /\ UNCHANGED <<doc, ScanState, ScanVars, SplitVars, last_printed_page,
                   PRINTED_CHAPTER_MAP_RANGES, FILE_CHAPTER_MAP, PAGE_OFFSET,
                   FALLBACK_TO_MANUAL, first_chapter_title, first_chapter_printed_page,
                   MANUAL_FALLBACK_FILE_PAGE, supplied, resolutions, temp_reader>>

\* lines 272-277 and 408-409: the extraction raises, returns None, and the
\* program exits
MainExtractRaises ==
    /\ pc = "main_start"
    /\ PRINTED_CHAPTER_STARTS' = None
    /\ pc' = "exit"
    /\ UNCHANGED <<doc, ScanState, ScanVars, SplitVars, last_printed_page,
                   PRINTED_CHAPTER_MAP_RANGES, FILE_CHAPTER_MAP, PAGE_OFFSET,
                   FALLBACK_TO_MANUAL, first_chapter_title, first_chapter_printed_page,
                   MANUAL_FALLBACK_FILE_PAGE, supplied, resolutions, temp_reader>>

\* lines 420-435: the reader opens, the first chapter is taken from the TOC
\* and the title scan is called
OpenReader ==
    /\ pc = "open_reader"
    /\ temp_reader' = "PdfReader"
    /\ first_chapter_title' = PRINTED_CHAPTER_STARTS[1][1]
    /\ first_chapter_printed_page' = PRINTED_CHAPTER_STARTS[1][2]
    /\ chapter_title' = first_chapter_title'
    /\ printed_start_page' = first_chapter_printed_page'
    /\ toc_end_file_page' = TOC_END_FILE_PAGE
    /\ pc' = "scan_enter"
    /\ UNCHANGED <<doc, ScanState, SplitVars, PRINTED_CHAPTER_STARTS, last_printed_page,
                   PRINTED_CHAPTER_MAP_RANGES, FILE_CHAPTER_MAP, PAGE_OFFSET,
                   FALLBACK_TO_MANUAL, MANUAL_FALLBACK_FILE_PAGE, supplied, resolutions>>

\* lines 421 and 455-457: PdfReader raises FileNotFoundError; exit()
OpenReaderNotFound ==
    /\ pc = "open_reader"
    /\ pc' = "exit"
    /\ UNCHANGED <<doc, ScanState, ScanVars, SplitVars, MainVars>>

\* lines 421 and 458-460: PdfReader raises another exception; the program
\* goes on to the manual fallback
OpenReaderRaises ==
    /\ pc = "open_reader"
    /\ pc' = "manual"
    /\ UNCHANGED <<doc, ScanState, ScanVars, SplitVars, MainVars>>

\* line 463: the fallback flag is off and the manual stage is not entered
SkipManual ==
    /\ pc = "manual"
    /\ ~FALLBACK_TO_MANUAL
    /\ pc' = "project"
    /\ UNCHANGED <<doc, ScanState, ScanVars, SplitVars, MainVars>>

\* where the manual stage goes once it has its offset: lines 506-512 first
\* when there is no reader yet
AfterOffset(reader) == IF reader = NoReader THEN "retry_reader" ELSE "project"

\* ScanReturn without line 439: the fallback flag is left on
ScanReturnKeepsFallback ==
    /\ pc = "scan_done"
    /\ IF scan_result # None
       THEN /\ PAGE_OFFSET' = scan_result[1]
            /\ resolutions' = Append(resolutions, <<"scan", scan_result[1]>>)
       ELSE UNCHANGED <<PAGE_OFFSET, resolutions>>
    /\ pc' = "manual"
    /\ UNCHANGED <<doc, ScanState, ScanVars, SplitVars, PRINTED_CHAPTER_STARTS,
                   last_printed_page, PRINTED_CHAPTER_MAP_RANGES, FILE_CHAPTER_MAP,
                   FALLBACK_TO_MANUAL, first_chapter_title, first_chapter_printed_page,
                   MANUAL_FALLBACK_FILE_PAGE, supplied, temp_reader>>

\* lines 437-450: the result of the scan is taken, or the fallback is left on;
\* the program continues at line 463
ScanReturn ==
    /\ pc = "scan_done"
    /\ IF scan_result # None
       THEN /\ PAGE_OFFSET' = scan_result[1]
            /\ FALLBACK_TO_MANUAL' = FALSE
            /\ resolutions' = Append(resolutions, <<"scan", scan_result[1]>>)
       ELSE UNCHANGED <<PAGE_OFFSET, FALLBACK_TO_MANUAL, resolutions>>
    /\ pc' = "manual"
    /\ UNCHANGED <<doc, ScanState, ScanVars, SplitVars, PRINTED_CHAPTER_STARTS,
                   last_printed_page, PRINTED_CHAPTER_MAP_RANGES, FILE_CHAPTER_MAP,
                   first_chapter_title, first_chapter_printed_page,
                   MANUAL_FALLBACK_FILE_PAGE, supplied, temp_reader>>

\* lines 466-474: anchor_printed_page
AnchorPrintedPage ==
    IF Len(first_chapter_title) > 0 /\ first_chapter_printed_page > FIRST_PRINTED_PAGE_NUMBER
    THEN first_chapter_printed_page
    ELSE FIRST_PRINTED_PAGE_NUMBER

\* line 484: the condition under which no prompt is shown
UsesHardcodedPage ==
    first_chapter_title = HardcodedTitle /\ AnchorPrintedPage = HardcodedAnchorPage

\* lines 463-486 and 501-503: the fallback takes the page from the program text
ManualHardcoded ==
    /\ pc = "manual"
    /\ FALLBACK_TO_MANUAL
    /\ UsesHardcodedPage
    /\ MANUAL_FALLBACK_FILE_PAGE' = <<HardcodedFilePage>>
    /\ PAGE_OFFSET' = MANUAL_FALLBACK_FILE_PAGE'[1] - AnchorPrintedPage
    /\ resolutions' = Append(resolutions, <<"manual", PAGE_OFFSET'>>)
    /\ pc' = AfterOffset(temp_reader)
    /\ UNCHANGED <<doc, ScanState, ScanVars, SplitVars, PRINTED_CHAPTER_STARTS,
                   last_printed_page, PRINTED_CHAPTER_MAP_RANGES, FILE_CHAPTER_MAP,
                   FALLBACK_TO_MANUAL, first_chapter_title, first_chapter_printed_page,
                   supplied, temp_reader>>

\* lines 489-499: the input is not an integer or is below 1; the prompt repeats
PromptRejected ==
    /\ pc = "manual"
    /\ FALLBACK_TO_MANUAL
    /\ ~UsesHardcodedPage
    /\ Len(supplied) < MaxPrompts
    /\ \E user_input \in UserInputs :
          /\ IF IntRaises(user_input) THEN TRUE ELSE ParseInt(user_input) < 1
          /\ supplied' = Append(supplied, user_input)
    /\ UNCHANGED <<pc, doc, ScanState, ScanVars, SplitVars, PRINTED_CHAPTER_STARTS,
                   last_printed_page, PRINTED_CHAPTER_MAP_RANGES, FILE_CHAPTER_MAP,
                   PAGE_OFFSET, FALLBACK_TO_MANUAL, first_chapter_title,
                   first_chapter_printed_page, MANUAL_FALLBACK_FILE_PAGE, resolutions,
                   temp_reader>>

\* lines 489-503: the input is an integer >= 1; the offset is computed from it
PromptAccepted ==
    /\ pc = "manual"
    /\ FALLBACK_TO_MANUAL
    /\ ~UsesHardcodedPage
    /\ Len(supplied) < MaxPrompts
    /\ \E user_input \in UserInputs :
          /\ ~IntRaises(user_input)
          /\ ParseInt(user_input) >= 1
          /\ supplied' = Append(supplied, user_input)
          /\ MANUAL_FALLBACK_FILE_PAGE' = <<ParseInt(user_input)>>
    /\ PAGE_OFFSET' = MANUAL_FALLBACK_FILE_PAGE'[1] - AnchorPrintedPage
    /\ resolutions' = Append(resolutions, <<"manual", PAGE_OFFSET'>>)
    /\ pc' = AfterOffset(temp_reader)
    /\ UNCHANGED <<doc, ScanState, ScanVars, SplitVars, PRINTED_CHAPTER_STARTS,
                   last_printed_page, PRINTED_CHAPTER_MAP_RANGES, FILE_CHAPTER_MAP,
                   FALLBACK_TO_MANUAL, first_chapter_title, first_chapter_printed_page,
                   temp_reader>>

\* lines 506-509: the reader is opened after the manual input
RetryReader ==
    /\ pc = "retry_reader"
    /\ temp_reader' = "PdfReader"
    /\ pc' = "project"
    /\ UNCHANGED <<doc, ScanState, ScanVars, SplitVars, PRINTED_CHAPTER_STARTS,
                   last_printed_page, PRINTED_CHAPTER_MAP_RANGES, FILE_CHAPTER_MAP,
                   PAGE_OFFSET, FALLBACK_TO_MANUAL, first_chapter_title,
                   first_chapter_printed_page, MANUAL_FALLBACK_FILE_PAGE, supplied,
                   resolutions>>

\* lines 510-512: the reader cannot be opened; exit()
RetryReaderRaises ==
    /\ pc = "retry_reader"
    /\ pc' = "exit"
    /\ UNCHANGED <<doc, ScanState, ScanVars, SplitVars, MainVars>>

\* ProjectRanges without the offset in file_end
ProjectRangesStartOnly(ranges, offset) ==
    [i \in 1..Len(ranges) |-> <<ranges[i][1], <<ranges[i][2][1] + offset, ranges[i][2][2]>>>>]

\* lines 534-537: the offset applied to every printed range
ProjectRanges(ranges, offset) ==
    [i \in 1..Len(ranges) |-> <<ranges[i][1], <<ranges[i][2][1] + offset, ranges[i][2][2] + offset>>>>]

\* Project with the page count taken as the last printed page, the offset
\* not subtracted
ProjectLastPageIsPageCount ==
    /\ pc = "project"
    /\ last_printed_page' = Len(doc)
    /\ PRINTED_CHAPTER_MAP_RANGES' = MapStartsToRanges(PRINTED_CHAPTER_STARTS, last_printed_page')
    /\ FILE_CHAPTER_MAP' = ProjectRanges(PRINTED_CHAPTER_MAP_RANGES', PAGE_OFFSET)
    /\ pc' = "call_split"
    /\ UNCHANGED <<doc, ScanState, ScanVars, SplitVars, PRINTED_CHAPTER_STARTS, PAGE_OFFSET,
                   FALLBACK_TO_MANUAL, first_chapter_title, first_chapter_printed_page,
                   MANUAL_FALLBACK_FILE_PAGE, supplied, resolutions, temp_reader>>

\* lines 522-537: the last printed page, the printed ranges and the file ranges
Project ==
    /\ pc = "project"
    /\ last_printed_page' = Len(doc) - PAGE_OFFSET
    /\ PRINTED_CHAPTER_MAP_RANGES' = MapStartsToRanges(PRINTED_CHAPTER_STARTS, last_printed_page')
    /\ FILE_CHAPTER_MAP' = ProjectRanges(PRINTED_CHAPTER_MAP_RANGES', PAGE_OFFSET)
    /\ pc' = "call_split"
    /\ UNCHANGED <<doc, ScanState, ScanVars, SplitVars, PRINTED_CHAPTER_STARTS, PAGE_OFFSET,
                   FALLBACK_TO_MANUAL, first_chapter_title, first_chapter_printed_page,
                   MANUAL_FALLBACK_FILE_PAGE, supplied, resolutions, temp_reader>>

\* the call announced by the comment of line 558:
\* split_pdf_by_chapters(INPUT_PDF, FILE_CHAPTER_MAP, PRINTED_CHAPTER_MAP_RANGES)
CallSplit ==
    /\ pc = "call_split"
    /\ chapter_pages' = FILE_CHAPTER_MAP
    /\ pc' = "split_enter"
    /\ UNCHANGED <<doc, ScanState, ScanVars, MainVars, total_pages, split_i, files,
                   written, skipped, write_failed>>

(***************************************************************************)
(* Specifications                                                          *)
(***************************************************************************)
\* the variables of the scan before it is called
ScanIdle ==
    /\ scan_i = 0
    /\ scan_result = None
    /\ scan_raised = FALSE
    /\ examined = << >>

\* the variables of the main program after lines 412-418
MainIdle ==
    /\ PRINTED_CHAPTER_STARTS = None
    /\ last_printed_page = 0
    /\ PRINTED_CHAPTER_MAP_RANGES = << >>
    /\ FILE_CHAPTER_MAP = << >>
    /\ PAGE_OFFSET = 0
    /\ FALLBACK_TO_MANUAL = TRUE
    /\ first_chapter_title = << >>
    /\ first_chapter_printed_page = FIRST_PRINTED_PAGE_NUMBER
    /\ MANUAL_FALLBACK_FILE_PAGE = None
    /\ supplied = << >>
    /\ resolutions = << >>
    /\ temp_reader = NoReader

\* the variables of the splitter before it is called
SplitIdle ==
    /\ total_pages = 0
    /\ split_i = 0
    /\ files = << >>
    /\ written = << >>
    /\ skipped = << >>
    /\ write_failed = << >>

\* the main program on one of the documents
Init ==
    /\ pc = "main_start"
    /\ doc \in MainDocs
    /\ chapter_title = << >>
    /\ printed_start_page = 0
    /\ toc_end_file_page = 0
    /\ chapter_pages = << >>
    /\ ScanIdle
    /\ MainIdle
    /\ SplitIdle

Next ==
    \/ MainExtract
    \/ MainExtractRaises
    \/ OpenReader
    \/ OpenReaderNotFound
    \/ OpenReaderRaises
    \/ ScanEnter
    \/ ScanRaises
    \/ ScanPage
    \/ ScanExhausted
    \/ ScanReturn
    \/ SkipManual
    \/ ManualHardcoded
    \/ PromptRejected
    \/ PromptAccepted
    \/ RetryReader
    \/ RetryReaderRaises
    \/ Project
    \/ CallSplit
    \/ SplitEnter
    \/ SplitCannotOpen
    \/ SplitSkip
    \/ SplitWrite
    \/ SplitWriteRaises
    \/ SplitComplete

Spec == Init /\ [][Next]_vars

\* find_offset_by_title_scan on drawn arguments
InitScan ==
    /\ pc = "scan_enter"
    /\ doc \in ScanDocs \cup LongDocs
    /\ chapter_title \in ScanTitles
    /\ printed_start_page \in {3, 13}
    /\ toc_end_file_page \in {0, 1}
    /\ chapter_pages = << >>
    /\ ScanIdle
    /\ MainIdle
    /\ SplitIdle

NextScan ==
    \/ ScanEnter
    \/ ScanRaises
    \/ ScanPage
    \/ ScanExhausted

SpecScan == InitScan /\ [][NextScan]_vars

\* extract_chapters_from_toc applied to the document
TocCall ==
    /\ pc = "toc_call"
    /\ PRINTED_CHAPTER_STARTS' = ExtractChaptersFromToc(doc)
    /\ pc' = "toc_done"
    /\ UNCHANGED <<doc, ScanState, ScanVars, SplitVars, last_printed_page,
                   PRINTED_CHAPTER_MAP_RANGES, FILE_CHAPTER_MAP, PAGE_OFFSET,
                   FALLBACK_TO_MANUAL, first_chapter_title, first_chapter_printed_page,
                   MANUAL_FALLBACK_FILE_PAGE, supplied, resolutions, temp_reader>>

InitToc ==
    /\ pc = "toc_call"
    /\ doc \in TocDocs
    /\ chapter_title = << >>
    /\ printed_start_page = 0
    /\ toc_end_file_page = 0
    /\ chapter_pages = << >>
    /\ ScanIdle
    /\ MainIdle
    /\ SplitIdle

SpecToc == InitToc /\ [][TocCall]_vars

\* map_starts_to_ranges applied to drawn arguments
MapCall ==
    /\ pc = "map_call"
    /\ PRINTED_CHAPTER_MAP_RANGES' = MapStartsToRanges(PRINTED_CHAPTER_STARTS, last_printed_page)
    /\ pc' = "map_done"
    /\ UNCHANGED <<doc, ScanState, ScanVars, SplitVars, PRINTED_CHAPTER_STARTS,
                   last_printed_page, FILE_CHAPTER_MAP, PAGE_OFFSET,
                   FALLBACK_TO_MANUAL, first_chapter_title, first_chapter_printed_page,
                   MANUAL_FALLBACK_FILE_PAGE, supplied, resolutions, temp_reader>>

InitMap ==
    /\ pc = "map_call"
    /\ doc = << >>
    /\ PRINTED_CHAPTER_STARTS \in StartMaps
    /\ last_printed_page \in (0 - 1)..(MaxStart + 2)
    /\ PRINTED_CHAPTER_MAP_RANGES = << >>
    /\ FILE_CHAPTER_MAP = << >>
    /\ PAGE_OFFSET = 0
    /\ FALLBACK_TO_MANUAL = TRUE
    /\ first_chapter_title = << >>
    /\ first_chapter_printed_page = FIRST_PRINTED_PAGE_NUMBER
    /\ MANUAL_FALLBACK_FILE_PAGE = None
    /\ supplied = << >>
    /\ resolutions = << >>
    /\ temp_reader = NoReader
    /\ chapter_title = << >>
    /\ printed_start_page = 0
    /\ toc_end_file_page = 0
    /\ chapter_pages = << >>
    /\ ScanIdle
    /\ SplitIdle

SpecMap == InitMap /\ [][MapCall]_vars

\* split_pdf_by_chapters on a drawn mapping and a document of MaxSplitPages pages
InitSplit ==
    /\ pc = "split_enter"
    /\ doc = [i \in 1..MaxSplitPages |-> BlankPage]
    /\ chapter_pages \in ChapterMaps
    /\ chapter_title = << >>
    /\ printed_start_page = 0
    /\ toc_end_file_page = 0
    /\ ScanIdle
    /\ MainIdle
    /\ SplitIdle

NextSplit ==
    \/ SplitEnter
    \/ SplitCannotOpen
    \/ SplitSkip
    \/ SplitWrite
    \/ SplitWriteRaises
    \/ SplitComplete

SpecSplit == InitSplit /\ [][NextSplit]_vars

\* split_pdf_by_chapters on a mapping whose keys are drawn from SplitTitles
InitSplitTitles ==
    /\ pc = "split_enter"
    /\ doc = [i \in 1..MaxSplitPages |-> BlankPage]
    /\ chapter_pages \in TitledMaps
    /\ chapter_title = << >>
    /\ printed_start_page = 0
    /\ toc_end_file_page = 0
    /\ ScanIdle
    /\ MainIdle
    /\ SplitIdle

SpecSplitTitles == InitSplitTitles /\ [][NextSplit]_vars

(***************************************************************************)
(* Properties of find_offset_by_title_scan                                 *)
(***************************************************************************)
\* the text of the consecutive words a..b, separated by single spaces
RunText(sized, a, b) == JoinSpace([k \in 1..(b - a + 1) |-> sized[a + k - 1].text])

\* condition (a): some run of consecutive large words of the page contains
\* the key once punctuation is removed and case is folded
ShowsKeyInLargeFont(page, key) ==
    LET sized == SizedWords(page.words)
    IN  \E a \in 1..Len(sized) : \E b \in a..Len(sized) :
            /\ \A k \in a..b : IsLarge(sized[k].size, Baseline(sized))
            /\ Contains(Lower(StripPunct(RunText(sized, a, b))), key)

\* conditions (a) and (b) on file page p
Qualifies(p) ==
    /\ ShowsKeyInLargeFont(doc[p], SearchKey(chapter_title))
    /\ Contains(doc[p].text, Str(printed_start_page))

\* the file pages of the scan window
Window == (StartIndex + 1)..ScanLimit

\* the scan has run on a usable key and no exception has reached its handlers
ScanRan == pc \in {"scan_loop", "scan_done"} /\ Len(SearchKey(chapter_title)) > 0 /\ ~scan_raised

\* C1: the scan examines the pages of its window in ascending order, returns
\* (p - printed_start_page, p) at the first page p that shows the key in large
\* font and contains the decimal string of printed_start_page, examines no
\* page after it, and returns None when no page of the window does both.
C1_FirstQualifyingPage ==
    ScanRan =>
        LET hits == {p \in Window : Qualifies(p)}
            n    == Len(examined)
        IN  /\ examined = [k \in 1..n |-> StartIndex + k]
            /\ \A k \in 1..n : examined[k] \in hits =>
                  /\ k = n
                  /\ pc = "scan_done"
                  /\ scan_result = <<examined[k] - printed_start_page, examined[k]>>
            /\ pc = "scan_done" =>
                  IF hits = {}
                  THEN scan_result = None /\ n = Cardinality(Window)
                  ELSE n > 0 /\ examined[n] \in hits

\* C1 witness: the scan returned at the second page it examined although the
\* first one showed the title
C1_Witness ==
    /\ ScanRan
    /\ pc = "scan_done"
    /\ scan_result # None
    /\ Len(examined) = 2
    /\ ShowsKeyInLargeFont(doc[examined[1]], SearchKey(chapter_title))

\* the number printed on a page of the drawn documents: its last word
PrintedNumber(page) == DigitsValue(page.words[Len(page.words)].text)

ReachedProjection ==
    pc \in {"call_split", "split_enter", "split_loop", "split_aborted", "split_complete"}

\* C3: the offset is assigned at most once and keeps the assigned value; in
\* every run that reaches the projection it has been assigned exactly once,
\* by the scan when the scan returned a result (the manual stage then did
\* not run) and by the manual stage when the scan returned None or was not
\* called.
C3_ResolvedOnce ==
    /\ Len(resolutions) <= 1
    /\ PAGE_OFFSET = IF Len(resolutions) = 1 THEN resolutions[1][2] ELSE 0
    /\ ReachedProjection =>
          /\ Len(resolutions) = 1
          /\ IF scan_result # None
             THEN /\ resolutions[1] = <<"scan", scan_result[1]>>
                  /\ MANUAL_FALLBACK_FILE_PAGE = None
                  /\ supplied = << >>
             ELSE /\ resolutions[1][1] = "manual"
                  /\ MANUAL_FALLBACK_FILE_PAGE # None

\* C3 witness: the scan examined pages and found nothing, the manual stage
\* resolved the offset, and the projection has been reached
C3_Witness ==
    /\ ReachedProjection
    /\ Len(examined) > 0
    /\ scan_result = None
    /\ Len(resolutions) = 1
    /\ resolutions[1][1] = "manual"

\* C4: whenever the manual stage resolves the offset, the offset is the page
\* the user supplied at the prompt in this run, an integer >= 1, minus the
\* anchor printed page.
C4_OffsetFromSuppliedPage ==
    (Len(resolutions) > 0 /\ resolutions[Len(resolutions)][1] = "manual") =>
        /\ Len(supplied) > 0
        /\ ~IntRaises(supplied[Len(supplied)])
        /\ ParseInt(supplied[Len(supplied)]) >= 1
        /\ PAGE_OFFSET = ParseInt(supplied[Len(supplied)]) - AnchorPrintedPage

(***************************************************************************)
(* Properties of map_starts_to_ranges                                      *)
(***************************************************************************)
\* the start pages of the argument, and the largest of them
StartPages == {PRINTED_CHAPTER_STARTS[i][2] : i \in 1..Len(PRINTED_CHAPTER_STARTS)}

MaxOf(S) == CHOOSE x \in S : \A y \in S : y <= x

MinOf(S) == CHOOSE x \in S : \A y \in S : x <= y

\* C5 as stated: the result has exactly one range per input entry.
C5_OneRangePerEntry ==
    pc = "map_done" => Len(PRINTED_CHAPTER_MAP_RANGES) = Len(PRINTED_CHAPTER_STARTS)

\* C5 amended: the result has one range per distinct start page, less one
\* when the largest start page exceeds last_printed_page; every range belongs
\* to an input entry and starts at that entry's start page; so there are at
\* most N ranges, and exactly N just when the start pages are pairwise
\* distinct and none exceeds last_printed_page.
C5_OneRangePerKeptEntry ==
    pc = "map_done" =>
        LET S == PRINTED_CHAPTER_STARTS
            R == PRINTED_CHAPTER_MAP_RANGES
            distinct == \A i, j \in 1..Len(S) : i # j => S[i][2] # S[j][2]
        IN  /\ Len(R) = IF Len(S) = 0 THEN 0
                        ELSE Cardinality(StartPages)
                             - (IF MaxOf(StartPages) > last_printed_page THEN 1 ELSE 0)
            /\ \A i, j \in 1..Len(R) : i # j => R[i][1] # R[j][1]
            /\ \A i \in 1..Len(R) : \E k \in 1..Len(S) : S[k][1] = R[i][1] /\ S[k][2] = R[i][2][1]
            /\ Len(R) <= Len(S)
            /\ Len(R) = Len(S) <=>
                  (distinct /\ (Len(S) = 0 \/ MaxOf(StartPages) <= last_printed_page))

\* C5 witness: a mapping of three entries, two of which share a start page,
\* has been mapped to two ranges
C5_Witness ==
    /\ pc = "map_done"
    /\ Len(PRINTED_CHAPTER_STARTS) = 3
    /\ Cardinality(StartPages) = 2
    /\ Len(PRINTED_CHAPTER_MAP_RANGES) = 2

\* the ranges R are non-empty, ascending and disjoint, and cover lo..hi exactly
Partitions(R, lo, hi) ==
    /\ \A i \in 1..Len(R) : R[i][2][1] <= R[i][2][2]
    /\ \A i, j \in 1..Len(R) : i < j => R[i][2][2] < R[j][2][1]
    /\ UNION {R[i][2][1]..R[i][2][2] : i \in 1..Len(R)} = lo..hi

\* C6 as stated: for a non-empty input the ranges partition
\* [first_start, last_printed_page].
C6_PartitionToLastPage ==
    (pc = "map_done" /\ Len(PRINTED_CHAPTER_STARTS) > 0) =>
        Partitions(PRINTED_CHAPTER_MAP_RANGES, MinOf(StartPages), last_printed_page)

\* C6 amended: for a non-empty input the ranges partition [first_start, E],
\* where E is last_printed_page when that is at least the largest start page
\* minus one, and the largest start page minus one otherwise.
C6_PartitionToCoveredEnd ==
    (pc = "map_done" /\ Len(PRINTED_CHAPTER_STARTS) > 0) =>
        Partitions(PRINTED_CHAPTER_MAP_RANGES, MinOf(StartPages),
                   IF last_printed_page >= MaxOf(StartPages) - 1
                   THEN last_printed_page ELSE MaxOf(StartPages) - 1)

\* C6 witness: three ranges come out of an input that was not in page order
C6_Witness ==
    /\ pc = "map_done"
    /\ Len(PRINTED_CHAPTER_MAP_RANGES) = 3
    /\ PRINTED_CHAPTER_STARTS[1][2] > PRINTED_CHAPTER_STARTS[2][2]

(***************************************************************************)
(* Properties of extract_chapters_from_toc                                 *)
(***************************************************************************)
UniqueLabels(m) == \A i, j \in 1..Len(m) : i # j => m[i][1] # m[j][1]

\* C7 as stated: the labels are unique and the printed start pages are
\* strictly increasing in the returned order.
C7_StrictlyIncreasing ==
    pc = "toc_done" =>
        /\ UniqueLabels(PRINTED_CHAPTER_STARTS)
        /\ \A i, j \in 1..Len(PRINTED_CHAPTER_STARTS) :
              i < j => PRINTED_CHAPTER_STARTS[i][2] < PRINTED_CHAPTER_STARTS[j][2]

\* C7 amended: the labels are unique and the printed start pages never
\* decrease in the returned order (two labels may share a page).
C7_NonDecreasing ==
    pc = "toc_done" =>
        /\ UniqueLabels(PRINTED_CHAPTER_STARTS)
        /\ \A i, j \in 1..Len(PRINTED_CHAPTER_STARTS) :
              i < j => PRINTED_CHAPTER_STARTS[i][2] <= PRINTED_CHAPTER_STARTS[j][2]

\* C7 witness: three entries have been returned, two of which share a page,
\* and the TOC listed the third before the second
C7_Witness ==
    /\ pc = "toc_done"
    /\ Len(PRINTED_CHAPTER_STARTS) = 3
    /\ PRINTED_CHAPTER_STARTS[1][2] = PRINTED_CHAPTER_STARTS[2][2]
    /\ ExtractFrom(doc, 1, << >>)[2] = PRINTED_CHAPTER_STARTS[3]

(***************************************************************************)
(* Properties of split_pdf_by_chapters                                     *)
(***************************************************************************)
\* chapter i of the map has 1 <= file_start <= file_end <= total_pages
ValidChapter(i) ==
    /\ 1 <= chapter_pages[i][2][1]
    /\ chapter_pages[i][2][1] <= chapter_pages[i][2][2]
    /\ chapter_pages[i][2][2] <= total_pages

\* C8: of the chapters the loop has taken so far, those with an invalid file
\* range have no output file and are recorded as skipped, and those with a
\* valid range have been written with exactly the physical pages
\* file_start..file_end; no chapter with an invalid range ever has an output
\* file; the loop never stops at a chapter with an invalid range, and when it
\* completes it has taken every chapter of the map.
C8_InvalidSkippedValidWritten ==
    pc \in {"split_loop", "split_complete", "split_aborted"} =>
        /\ \A i \in 1..split_i :
              LET name == OutputFilename(chapter_pages[i][1])
              IN  IF ValidChapter(i)
                  THEN /\ name \in DOMAIN files
                       /\ files[name] = [k \in 1..(chapter_pages[i][2][2] - chapter_pages[i][2][1] + 1)
                                            |-> chapter_pages[i][2][1] + k - 1]
                       /\ \E k \in 1..Len(written) : written[k] = chapter_pages[i][1]
                  ELSE \E k \in 1..Len(skipped) : skipped[k] = chapter_pages[i][1]
        /\ \A i \in 1..Len(chapter_pages) :
              ~ValidChapter(i) => OutputFilename(chapter_pages[i][1]) \notin DOMAIN files
        /\ pc = "split_complete" => split_i = Len(chapter_pages)
        /\ (pc = "split_aborted" /\ write_failed # << >>) =>
              /\ ValidChapter(split_i + 1)
              /\ write_failed = <<chapter_pages[split_i + 1][1]>>

\* C8 witness: a completed run has skipped the first chapter for its range
\* and written the second
C8_Witness ==
    /\ pc = "split_complete"
    /\ Len(chapter_pages) = 2
    /\ ~ValidChapter(1)
    /\ ValidChapter(2)
    /\ skipped = <<chapter_pages[1][1]>>
    /\ written = <<chapter_pages[2][1]>>

\* C9: when the write of one chapter fails, every later chapter of the map
\* with a valid file range is still written.
C9_LaterChaptersStillWritten ==
    (pc = "split_aborted" /\ write_failed # << >>) =>
        \A j \in (split_i + 2)..Len(chapter_pages) :
            ValidChapter(j) => \E k \in 1..Len(written) : written[k] = chapter_pages[j][1]

(***************************************************************************)
(* The end-to-end scenario                                                 *)
(***************************************************************************)
ScenarioToc == <<<<<<"1", " ", "I", "n", "t", "r", "o", "d", "u", "c", "t", "i", "o", "n">>, 3>>, <<<<"2", " ", "B", "a", "s", "i", "c", "s">>, 20>>>>

\* TOC {"1 Introduction": 3, "2 Basics": 20}, 45 physical pages, offset 24
Scenario ==
    /\ ReachedProjection
    /\ PRINTED_CHAPTER_STARTS = ScenarioToc
    /\ Len(doc) = 45
    /\ PAGE_OFFSET = 24

KeptChars == LowerChars \cup UpperChars \cup DigitChars \cup {" ", "_", "-"}

\* the name without its ".pdf"
Stem(name) == Slice(name, 1, Len(name) - 4)

\* C11 as stated: the title "Error Handling: Part 1" is written as
\* Error_Handling__Part_1.pdf, and a file name holds only alphanumerics,
\* underscores and hyphens (and the dots of the numeral prefix).
C11_SpacesReplaced ==
    /\ \A k \in 1..Len(written) :
          written[k] = <<"E", "r", "r", "o", "r", " ", "H", "a", "n", "d", "l", "i", "n", "g", ":", " ", "P", "a", "r", "t", " ", "1">> =>
              <<"E", "r", "r", "o", "r", "_", "H", "a", "n", "d", "l", "i", "n", "g", "_", "_", "P", "a", "r", "t", "_", "1", ".", "p", "d", "f">> \in DOMAIN files
    /\ \A name \in DOMAIN files : \A i \in 1..Len(Stem(name)) :
          Stem(name)[i] \in (KeptChars \ {" "}) \cup {"."}

\* C11 amended: the title "Error Handling: Part 1" is written as
\* "Error Handling_ Part 1.pdf": the colon becomes an underscore and the
\* spaces stay; with the numeral prefix 1 the name is
\* "1_Error Handling_ Part 1.pdf"; case, underscores and hyphens are kept
\* ("2.1 a_b-C" gives "2.1_a_b-C.pdf"), leading and trailing spaces of the
\* title are removed (" x/y " gives "x_y.pdf"), and every file name holds
\* only alphanumerics, spaces, underscores and hyphens besides the dots of
\* the numeral prefix and the extension.
C11_SpacesKept ==
    /\ \A k \in 1..Len(written) :
          /\ written[k] = <<"E", "r", "r", "o", "r", " ", "H", "a", "n", "d", "l", "i", "n", "g", ":", " ", "P", "a", "r", "t", " ", "1">> =>
                <<"E", "r", "r", "o", "r", " ", "H", "a", "n", "d", "l", "i", "n", "g", "_", " ", "P", "a", "r", "t", " ", "1", ".", "p", "d", "f">> \in DOMAIN files
          /\ written[k] = <<"1", " ", "E", "r", "r", "o", "r", " ", "H", "a", "n", "d", "l", "i", "n", "g", ":", " ", "P", "a", "r", "t", " ", "1">> =>
                <<"1", "_", "E", "r", "r", "o", "r", " ", "H", "a", "n", "d", "l", "i", "n", "g", "_", " ", "P", "a", "r", "t", " ", "1", ".", "p", "d", "f">> \in DOMAIN files
          /\ written[k] = <<"2", ".", "1", " ", "a", "_", "b", "-", "C">> => <<"2", ".", "1", "_", "a", "_", "b", "-", "C", ".", "p", "d", "f">> \in DOMAIN files
          /\ written[k] = <<" ", "x", "/", "y", " ">> => <<"x", "_", "y", ".", "p", "d", "f">> \in DOMAIN files
    /\ \A name \in DOMAIN files :
          /\ Len(name) > 4
          /\ Slice(name, Len(name) - 3, Len(name)) = <<".", "p", "d", "f">>
          /\ \A i \in 1..Len(Stem(name)) : Stem(name)[i] \in KeptChars \cup {"."}
          /\ Stem(name)[1] # " " /\ Stem(name)[Len(Stem(name))] # " "

\* C11 witness: the chapter "Error Handling: Part 1" has been written
C11_Witness ==
    /\ pc = "split_complete"
    /\ written = << <<"E", "r", "r", "o", "r", " ", "H", "a", "n", "d", "l", "i", "n", "g", ":", " ", "P", "a", "r", "t", " ", "1">> >>
    /\ DOMAIN files = { <<"E", "r", "r", "o", "r", " ", "H", "a", "n", "d", "l", "i", "n", "g", "_", " ", "P", "a", "r", "t", " ", "1", ".", "p", "d", "f">> }

\* C14: after a completed run there are as many output files as chapters with
\* a valid range: two chapters never share an output file.
C14_OneFilePerValidChapter ==
    pc = "split_complete" => Cardinality(DOMAIN files) = Len(written)

(***************************************************************************)
(* The scan window                                                         *)
(***************************************************************************)
\* min(toc_end_file_page + 50, number of pages)
WindowEnd ==
    IF toc_end_file_page + ScanWindow < Len(doc) THEN toc_end_file_page + ScanWindow
    ELSE Len(doc)

\* C12: every file page p the scan examines satisfies
\* toc_end < p <= min(toc_end + 50, total_pages); the pages are examined in
\* ascending order, one after the other, starting at toc_end + 1; at most 50
\* pages are examined; and a returned anchor page lies in the window and is
\* the last page examined.
C12_ExaminedInWindow ==
    /\ \A k \in 1..Len(examined) :
          /\ toc_end_file_page < examined[k]
          /\ examined[k] <= WindowEnd
          /\ examined[k] = toc_end_file_page + k
    /\ Len(examined) <= ScanWindow
    /\ scan_result # None =>
          /\ toc_end_file_page < scan_result[2]
          /\ scan_result[2] <= WindowEnd
          /\ Len(examined) > 0
          /\ scan_result[2] = examined[Len(examined)]

\* C12 witness: the scan of a document with more than 50 pages after the TOC
\* end has given up after examining exactly the 50 pages of the window
C12_Witness ==
    /\ pc = "scan_done"
    /\ Len(doc) > toc_end_file_page + ScanWindow
    /\ Len(examined) = ScanWindow
    /\ examined[ScanWindow] = toc_end_file_page + ScanWindow
    /\ scan_result = None
    /\ ~scan_raised

(***************************************************************************)
(* The last chapter in the pipeline                                        *)
(***************************************************************************)
\* the entry of the extracted chapters with the largest printed start page
\* that the mapper takes as the last chapter
LastChapter == PRINTED_CHAPTER_STARTS[Len(PRINTED_CHAPTER_STARTS)]

C13_DroppedCase ==
    /\ pc = "split_complete"
    /\ Len(doc) = 12
    /\ PAGE_OFFSET = 7
    /\ Len(PRINTED_CHAPTER_STARTS) = 2
    /\ Len(FILE_CHAPTER_MAP) = 1

\* two chapters share the largest start page: the mapper keeps the later one
\* as the last chapter, up to the last physical page
C13_SharedStartCase ==
    /\ pc = "split_complete"
    /\ Len(PRINTED_CHAPTER_STARTS) = 2
    /\ PRINTED_CHAPTER_STARTS[1][2] = PRINTED_CHAPTER_STARTS[2][2]
    /\ Len(FILE_CHAPTER_MAP) = 1
    /\ FILE_CHAPTER_MAP[1][2][2] = Len(doc)

====
